---- MODULE Spec2Model ----
(***************************************************************************)
(* A model of the availability resolver, the task router, the execution   *)
(* pipeline, the recurring-task generator and the email ingestion of       *)
(* cognito:                                                                *)
(*   - find_free_slots           (src/src/scripts/calendar_utils.py)       *)
(*   - setup_trello, determine_target_list, find_optimal_slot and          *)
(*     execute_tasks             (src/src/scripts/execute_tasks.py)        *)
(*   - generate_recurring_tasks  (src/src/scripts/generate_recurring.py)   *)
(*   - main                      (src/src/scripts/ingest_hub.py)           *)
(* The specifications share the variables and pin those of the others:     *)
(* SpecSlots runs find_free_slots statement by statement, SpecRoute runs   *)
(* the board setup followed by one call of determine_target_list, SpecExec *)
(* runs the loop body of execute_tasks in two executions against one       *)
(* calendar, SpecPipeline runs execute_tasks as a whole, run after run,    *)
(* SpecRecurring runs the recurring-task generator repeatedly              *)
(* (SpecRecurringLive: as the daily job, with fairness), SpecIngest runs   *)
(* the email ingestion repeatedly.                                         *)
(***************************************************************************)
EXTENDS Integers, Sequences, FiniteSets, TLC

VARIABLES
    \* ---- find_free_slots ----
    busy_data,        \* get_free_busy's answer: one list of periods per calendar
    start_time,       \* search start, seconds since 00:00 of day 0
    start_aware,      \* TRUE when start_time carries a tzinfo (datetime.now(timezone.utc))
    end_time,         \* search end
    duration_minutes, \* requested slot length
    working_hours,    \* <<start_hour, end_hour>>
    all_busy,         \* the list the loop walks
    idx,              \* position of the for loop in all_busy (1-based)
    current,          \* the loop's cursor
    free_slots,       \* slots appended so far
    slots_result,     \* the value returned
    fpc,              \* "call" | "loop" | "done" | "TypeError"
    \* ---- setup_board_lists / determine_target_list ----
    existing_lists,   \* keys of LIST_NAMES whose list already is on the board
    list_ids,         \* dict: list key -> list id
    task,             \* the inbox_queue row routed
    now,              \* datetime.now() read by determine_target_list
    target_list_id,   \* the value returned
    warnings,         \* number of logger.warning calls made by determine_target_list
    rpc               \* "setup" | "route" | "aborted" | "routed"

slotVars == <<busy_data, start_time, start_aware, end_time, duration_minutes,
              working_hours, all_busy, idx, current, free_slots, slots_result, fpc>>
routeVars == <<existing_lists, list_ids, task, now, target_list_id, warnings, rpc>>

VARIABLES
    \* ---- execute_tasks: two runs, each processing one task ----
    calendar,         \* busy periods of the 'primary' calendar, events included
    exec_now,         \* datetime.now(timezone.utc) of find_optimal_slot
    dry_run,          \* execute_tasks(dry_run=...)
    calendar_service, \* TRUE when get_calendar_service() returned a service
    etask,            \* per run: the task of the loop body
    etarget,          \* per run: target_list_id
    result,           \* per run: list the Trello card was created in, or None
    status_updated,   \* per run: update_task_execution_status wrote the row
    snapshot,         \* per run: the busy list get_free_busy answered
    finder,           \* per run: "none" | "empty" | "slots" | "TypeError"
    slot,             \* per run: find_optimal_slot's value, <<>> for None
    event,            \* per run: the calendar event created, <<>> for none
    epc               \* per run: "route" | "card" | "status" | "query" | "find" | "done" | "failed"

execVars == <<calendar, exec_now, dry_run, calendar_service, etask, etarget,
              result, status_updated, snapshot, finder, slot, event, epc>>

VARIABLES
    \* ---- generate_recurring_tasks ----
    recurring_tasks,  \* table recurring_tasks: template id -> row
    inbox_queue,      \* rows of inbox_queue written by the generator: message ids
    elapsed,          \* days passed since the first run's day
    gen_dry_run,      \* generate_recurring_tasks(dry_run=...)
    due_tasks,        \* the rows fetched by the run, not yet processed
    created_count,    \* `created`, counter of the run
    skipped_count,    \* `skipped`, counter of the run
    runs,             \* runs started so far
    last_exit,        \* how the latest run ended: "none" | "returned" | "ValueError"
    faults,           \* database calls that have raised so far
    gpc               \* "idle" | "loop"

recVars == <<recurring_tasks, inbox_queue, elapsed, gen_dry_run, due_tasks,
             created_count, skipped_count, runs, last_exit, faults, gpc>>
VARIABLES
    \* ---- execute_tasks as a whole, run after run ----
    queue,            \* table inbox_queue: task id -> row
    trello,           \* the Trello account: board, lists, labels, cards
    gcal,             \* busy periods of the 'primary' calendar, events included
    pipe_dry_run,     \* execute_tasks(dry_run=...)
    pipe_service,     \* TRUE when get_calendar_service() returned a service
    tasks,            \* the fetched rows not yet processed (task ids)
    fetched_count,    \* len(tasks) after the fetch
    run_list_ids,     \* list_ids returned by setup_trello
    card,             \* create_trello_card's value for the current task
    success_count,    \* counter of the run
    fail_count,       \* counter of the run
    scheduled_count,  \* counter of the run
    steps,            \* what the run has done so far: <<operation, task id>>
    before,           \* <<queue, trello, gcal>> when the run started
    pipe_runs,        \* runs started so far
    pipe_faults,      \* external calls that have failed so far
    pipe_exit,        \* how the latest run ended
    ppc               \* "idle" | "setup" | "route" | "card" | "status" | "schedule"

pipeVars == <<queue, trello, gcal, pipe_dry_run, pipe_service, tasks,
              fetched_count, run_list_ids, card, success_count, fail_count,
              scheduled_count, steps, before, pipe_runs, pipe_faults,
              pipe_exit, ppc>>

VARIABLES
    \* ---- ingest_hub.main ----
    unread,           \* Gmail: ids of the messages carrying the UNREAD label
    stored,           \* inbox_queue: message ids saved by the ingestion
    ing_dry_run,      \* main(dry_run=...)
    emails,           \* the fetched emails not yet processed
    emails_fetched,   \* len(emails) after the fetch
    handled,          \* this run: email id -> what the loop did with it
    processed_count,  \* counter of the run
    blocked_count,    \* counter of the run
    error_count,      \* counter of the run
    ing_runs,         \* runs started so far
    ing_faults,       \* calls that have failed so far
    ing_exit,         \* how the latest run ended: "none" | "returned" | "summary" | "raised"
    ipc               \* "idle" | "loop"

ingVars == <<unread, stored, ing_dry_run, emails, emails_fetched, handled,
             processed_count, blocked_count, error_count, ing_runs, ing_faults,
             ing_exit, ipc>>
vars == <<slotVars, routeVars, execVars, recVars, pipeVars, ingVars>>

None == "None"

(***************************************************************************)
(* Bounds of the exploration.                                              *)
(***************************************************************************)
MaxBusy == 2          \* busy periods in one free/busy answer
MaxDeadlineDay == 9   \* deadlines lie on days 0 .. MaxDeadlineDay; now is on day 1

(***************************************************************************)
(* datetime arithmetic.  A naive datetime with whole seconds is the number *)
(* of seconds since 00:00:00 of day 0.                                     *)
(***************************************************************************)
SecondsOfDay == 24 * 60 * 60
At(d, h, m) == d * SecondsOfDay + h * 3600 + m * 60
hour(t) == (t % SecondsOfDay) \div 3600
date(t) == t \div SecondsOfDay
timedelta_minutes(n) == n * 60
timedelta_days(n) == n * SecondsOfDay
Min(a, b) == IF a <= b THEN a ELSE b

(***************************************************************************)
(* find_free_slots                                                         *)
(***************************************************************************)
\* free_slots[:10]
SlotLimit == 10

\* all_busy as built by the two nested for loops: the calendars' lists, one
\* after the other, every period kept.
RECURSIVE Flatten(_)
Flatten(data) ==
    IF data = <<>> THEN <<>> ELSE Head(data) \o Flatten(Tail(data))

\* An insertion that puts x in front of the elements with an equal start.
RECURSIVE InsertByStart_BeforeEqual(_, _)
InsertByStart_BeforeEqual(sorted, x) ==
    IF sorted = <<>> THEN <<x>>
    ELSE IF Head(sorted).start < x.start
         THEN <<Head(sorted)>> \o InsertByStart_BeforeEqual(Tail(sorted), x)
         ELSE <<x>> \o sorted

\* list.sort(key=lambda x: x['start']) is stable: x goes behind every element
\* whose start is <= its own.
RECURSIVE InsertByStart(_, _)
InsertByStart(sorted, x) ==
    IF sorted = <<>> THEN <<x>>
    ELSE IF Head(sorted).start <= x.start
         THEN <<Head(sorted)>> \o InsertByStart(Tail(sorted), x)
         ELSE <<x>> \o sorted

RECURSIVE SortByStart(_)
SortByStart(s) ==
    IF s = <<>> THEN <<>>
    ELSE InsertByStart(SortByStart(SubSeq(s, 1, Len(s) - 1)), s[Len(s)])

\* The test of one gap [gap_start, gap_end): hours first, then the length.
\* The hour test alone, without the test of the gap's length.
GapQualifies_AnyLength(gap_start, gap_end, wh, dur) ==
    /\ hour(gap_start) >= wh[1]
    /\ hour(gap_end) <= wh[2]

GapQualifies(gap_start, gap_end, wh, dur) ==
    /\ hour(gap_start) >= wh[1]
    /\ hour(gap_end) <= wh[2]
    /\ gap_end - gap_start >= timedelta_minutes(dur)

\* A slot that reports the requested duration as the size of its gap.
NewSlot_SizeIsDuration(gap_start, gap_end, dur) ==
    [start |-> gap_start,
     end |-> gap_start + timedelta_minutes(dur),
     gap_size_minutes |-> dur]

NewSlot(gap_start, gap_end, dur) ==
    [start |-> gap_start,
     end |-> gap_start + timedelta_minutes(dur),
     gap_size_minutes |-> (gap_end - gap_start) \div 60]

\* A cursor that follows the end of the interval just processed.
CurrentAfter_LastEnd(cur, busy) == busy.end

\* One pass of the for loop's body over `busy`: the slots list after it.
SlotsAfter(slots, cur, busy, wh, dur) ==
    IF busy.start > cur /\ GapQualifies(cur, busy.start, wh, dur)
    THEN Append(slots, NewSlot(cur, busy.start, dur))
    ELSE slots

\* ... and the cursor after it.
CurrentAfter(cur, busy) == IF busy.end > cur THEN busy.end ELSE cur

Truncate(slots) == SubSeq(slots, 1, Min(SlotLimit, Len(slots)))

\* ---- inputs ----
Period(s, e) == [start |-> s, end |-> e]

WellFormedPeriods ==
    { Period(At(0, 9, 0), At(0, 10, 0)),
      Period(At(0, 9, 0), At(0, 10, 30)),
      Period(At(0, 10, 0), At(0, 10, 30)),
      Period(At(0, 10, 0), At(0, 11, 0)),
      Period(At(0, 11, 0), At(0, 11, 30)),
      Period(At(0, 9, 0), At(0, 17, 0)),
      Period(At(0, 12, 0), At(0, 16, 0)),
      Period(At(0, 16, 30), At(0, 17, 0)),
      Period(At(1, 10, 0), At(1, 11, 0)),
      Period(At(1, 10, 30), At(1, 12, 0)) }

MalformedPeriods ==
    { Period(At(0, 11, 0), At(0, 10, 0)),
      Period(At(0, 10, 0), At(0, 9, 0)),
      Period(At(0, 10, 0), At(0, 10, 0)) }

Periods == WellFormedPeriods \cup MalformedPeriods

SeqsUpTo(S, n) == UNION { [1..k -> S] : k \in 0..n }

\* The free/busy query is made for [start_time, end_time]: the periods of its
\* answer lie inside that range.
InWindow(p, from, to) ==
    /\ from <= p.start /\ p.start <= to
    /\ from <= p.end /\ p.end <= to

\* A free/busy answer for two calendars: the periods of the raw list dealt to
\* the calendars, the first half to the first one.
ShortAnswers ==
    { <<SubSeq(raw, 1, (Len(raw) + 1) \div 2),
        SubSeq(raw, (Len(raw) + 1) \div 2 + 1, Len(raw))>> :
      raw \in SeqsUpTo(Periods, MaxBusy) }

\* A crowded day: ten-minute meetings every forty minutes from 09:30, two
\* more of them than the slots a call returns, dealt alternately to the two
\* calendars.  Thirty free minutes precede each meeting.
CrowdedCount == SlotLimit + 2
Meeting(k) ==
    Period(At(0, 9, 30) + timedelta_minutes(40 * (k - 1)),
           At(0, 9, 40) + timedelta_minutes(40 * (k - 1)))
CrowdedAnswer ==
    <<[k \in 1..(CrowdedCount \div 2) |-> Meeting(2 * k - 1)],
      [k \in 1..(CrowdedCount \div 2) |-> Meeting(2 * k)]>>

BusyAnswers == ShortAnswers \cup {CrowdedAnswer}

Windows ==
    { [start |-> At(0, 9, 0), end |-> At(0, 17, 0), aware |-> FALSE],
      [start |-> At(0, 16, 0), end |-> At(0, 16, 0) + timedelta_days(7), aware |-> FALSE],
      [start |-> At(0, 9, 0), end |-> At(0, 9, 0) + timedelta_days(7), aware |-> TRUE] }

Policies == { <<9, 17>>, <<10, 12>> }
Durations == { 30, 120 }

(***************************************************************************)
(* datetimes of determine_target_list keep their microseconds: t is the    *)
(* whole seconds since 00:00:00 of day 0, us the microsecond field.        *)
(***************************************************************************)
DT(d, h, m, sec, us) == [t |-> At(d, h, m) + sec, us |-> us]
\* dt.replace(hour=23, minute=59, second=59): the date and the microsecond stay
replace_23_59_59(dt) == [t |-> At(date(dt.t), 23, 59) + 59, us |-> dt.us]
plus_days(dt, n) == [t |-> dt.t + timedelta_days(n), us |-> dt.us]
\* a <= b on datetimes
Le(a, b) == a.t < b.t \/ (a.t = b.t /\ a.us <= b.us)

(***************************************************************************)
(* setup_board_lists and determine_target_list                             *)
(***************************************************************************)
\* The keys of LIST_NAMES, and the id Trello gives the list of each key.
ListKeys == {"today", "tomorrow", "this_week", "later", "completed"}
BoardListId(key) ==
    CASE key = "today" -> "list-today"
      [] key = "tomorrow" -> "list-tomorrow"
      [] key = "this_week" -> "list-this-week"
      [] key = "later" -> "list-later"
      [] key = "completed" -> "list-completed"

\* dict.get(key, default)
DictGet(d, key, default) == IF key \in DOMAIN d THEN d[key] ELSE default

\* ai_inferred_deadline as the database row holds it:
\*   None    null, or the key is missing
\*   empty   the empty string (falsy, like None)
\*   text    a string datetime.fromisoformat rejects (ValueError)
\*   number  a truthy value that is no string: it is compared as it is (TypeError)
\*   iso     an ISO-8601 string: wall is its date and time, tz its offset suffix
NoDeadline == [kind |-> "None", wall |-> DT(0, 0, 0, 0, 0), tz |-> ""]
Deadline(kind, wall, tz) == [kind |-> kind, wall |-> wall, tz |-> tz]
NoTask == [ai_priority |-> None, ai_inferred_deadline |-> NoDeadline]

\* `if deadline_str:`
Truthy(d) == d.kind \notin {"None", "empty"}
\* The try block raises ValueError (fromisoformat) or TypeError (the comparison).
DeadlineRaises(d) == d.kind \in {"text", "number"}
\* fromisoformat(s.replace('Z', '+00:00')).replace(tzinfo=None): the offset is
\* dropped, the wall-clock fields stay.
ParseDeadline(d) == d.wall

\* A cascade whose Tomorrow and ThisWeek results are exchanged.
DeadlineKey_Exchanged(deadline, n) ==
    LET today_end == replace_23_59_59(n)
        tomorrow_end == replace_23_59_59(plus_days(n, 1))
        week_end == replace_23_59_59(plus_days(n, 7))
    IN  IF Le(deadline, today_end) THEN "today"
        ELSE IF Le(deadline, tomorrow_end) THEN "this_week"
        ELSE IF Le(deadline, week_end) THEN "tomorrow"
        ELSE "later"

\* The deadline cascade of lines 264-271.
DeadlineKey(deadline, n) ==
    LET today_end == replace_23_59_59(n)
        tomorrow_end == replace_23_59_59(plus_days(n, 1))
        week_end == replace_23_59_59(plus_days(n, 7))
    IN  IF Le(deadline, today_end) THEN "today"
        ELSE IF Le(deadline, tomorrow_end) THEN "tomorrow"
        ELSE IF Le(deadline, week_end) THEN "this_week"
        ELSE "later"

\* Lines 275-280: task.get('ai_priority', 'Normal') decides.
PriorityKey(tk) == IF tk.ai_priority = "High" THEN "this_week" ELSE "later"

\* A cascade that looks at the deadline before the priority.
TargetKey_DeadlineFirst(tk, n) ==
    LET d == tk.ai_inferred_deadline IN
    IF Truthy(d) /\ ~DeadlineRaises(d) THEN DeadlineKey(ParseDeadline(d), n)
    ELSE IF tk.ai_priority = "Critical" THEN "today"
    ELSE PriorityKey(tk)

\* A cascade that sends High tasks without a deadline to Later.
TargetKey_HighToLater(tk, n) ==
    LET d == tk.ai_inferred_deadline IN
    IF tk.ai_priority = "Critical" THEN "today"
    ELSE IF Truthy(d) /\ ~DeadlineRaises(d) THEN DeadlineKey(ParseDeadline(d), n)
    ELSE "later"

\* A cascade whose except branch returns the Later list at once.
TargetKey_ErrorToLater(tk, n) ==
    LET d == tk.ai_inferred_deadline IN
    IF tk.ai_priority = "Critical" THEN "today"
    ELSE IF Truthy(d)
         THEN IF DeadlineRaises(d) THEN "later" ELSE DeadlineKey(ParseDeadline(d), n)
         ELSE PriorityKey(tk)

\* The key of list_ids that determine_target_list looks up first.
TargetKey(tk, n) ==
    LET d == tk.ai_inferred_deadline IN
    IF tk.ai_priority = "Critical" THEN "today"
    ELSE IF Truthy(d) /\ ~DeadlineRaises(d) THEN DeadlineKey(ParseDeadline(d), n)
    ELSE PriorityKey(tk)

\* Every return statement is list_ids.get(key, list_ids.get('later')); for
\* the key 'later' this is list_ids.get('later').
determine_target_list(tk, ids, n) ==
    DictGet(ids, TargetKey(tk, n), DictGet(ids, "later", None))

\* logger.warning is reached when the try block raises, which needs a task
\* that is not Critical and a truthy deadline.
WarningsLogged(tk) ==
    LET d == tk.ai_inferred_deadline IN
    IF tk.ai_priority # "Critical" /\ Truthy(d) /\ DeadlineRaises(d) THEN 1 ELSE 0

\* ---- inputs ----
Priorities == {"Critical", "High", "Normal", "Low", None}
TimesOfDay == { <<0, 0, 0, 0>>, <<23, 59, 59, 0>>,
                <<23, 59, 59, 500000>>, <<23, 59, 59, 600000>> }
IsoDeadlines ==
    { Deadline("iso", DT(d, c[1], c[2], c[3], c[4]), tz) :
        d \in 0..MaxDeadlineDay, c \in TimesOfDay, tz \in {"", "Z"} }
Deadlines ==
    IsoDeadlines \cup
    { NoDeadline, Deadline("empty", DT(0, 0, 0, 0, 0), ""),
      Deadline("text", DT(0, 0, 0, 0, 0), ""),
      Deadline("number", DT(0, 0, 0, 0, 0), "") }
Tasks == [ai_priority : Priorities, ai_inferred_deadline : Deadlines]
Nows == { DT(1, 10, 0, 0, 0), DT(1, 10, 0, 0, 600000) }
Boards == { {}, ListKeys, {"later"}, {"today", "completed"} }

SlotsIdle ==
    /\ busy_data = <<>>
    /\ start_time = 0
    /\ start_aware = FALSE
    /\ end_time = 0
    /\ duration_minutes = 0
    /\ working_hours = <<9, 17>>
    /\ all_busy = <<>>
    /\ idx = 0
    /\ current = 0
    /\ free_slots = <<>>
    /\ slots_result = <<>>
    /\ fpc = "idle"

RouteIdle ==
    /\ existing_lists = {}
    /\ list_ids = <<>>
    /\ task = NoTask
    /\ now = DT(0, 0, 0, 0, 0)
    /\ target_list_id = None
    /\ warnings = 0
    /\ rpc = "idle"

Runs == {"a", "b"}

ExecIdle ==
    /\ calendar = <<>>
    /\ exec_now = 0
    /\ dry_run = FALSE
    /\ calendar_service = FALSE
    /\ etask = <<>>
    /\ etarget = <<>>
    /\ result = <<>>
    /\ status_updated = <<>>
    /\ snapshot = <<>>
    /\ finder = <<>>
    /\ slot = <<>>
    /\ event = <<>>
    /\ epc = <<>>

RecIdle ==
    /\ recurring_tasks = <<>>
    /\ inbox_queue = <<>>
    /\ elapsed = 0
    /\ gen_dry_run = FALSE
    /\ due_tasks = <<>>
    /\ created_count = 0
    /\ skipped_count = 0
    /\ runs = 0
    /\ last_exit = "none"
    /\ faults = 0
    /\ gpc = "idle"

PipeIdle ==
    /\ queue = <<>>
    /\ trello = <<>>
    /\ gcal = <<>>
    /\ pipe_dry_run = FALSE
    /\ pipe_service = FALSE
    /\ tasks = <<>>
    /\ fetched_count = 0
    /\ run_list_ids = <<>>
    /\ card = None
    /\ success_count = 0
    /\ fail_count = 0
    /\ scheduled_count = 0
    /\ steps = <<>>
    /\ before = <<>>
    /\ pipe_runs = 0
    /\ pipe_faults = 0
    /\ pipe_exit = "none"
    /\ ppc = "idle"

IngIdle ==
    /\ unread = {}
    /\ stored = {}
    /\ ing_dry_run = FALSE
    /\ emails = <<>>
    /\ emails_fetched = 0
    /\ handled = <<>>
    /\ processed_count = 0
    /\ blocked_count = 0
    /\ error_count = 0
    /\ ing_runs = 0
    /\ ing_faults = 0
    /\ ing_exit = "none"
    /\ ipc = "idle"

InitSlots ==
    /\ \E w \in Windows :
          /\ start_time = w.start
          /\ end_time = w.end
          /\ start_aware = w.aware
          /\ busy_data \in
                { a \in BusyAnswers :
                    \A c \in 1..Len(a) : \A k \in 1..Len(a[c]) :
                        InWindow(a[c][k], w.start, w.end) }
    /\ duration_minutes \in Durations
    /\ working_hours \in Policies
    /\ all_busy = <<>>
    /\ idx = 0
    /\ current = 0
    /\ free_slots = <<>>
    /\ slots_result = <<>>
    /\ fpc = "call"
    /\ RouteIdle
    /\ ExecIdle
    /\ RecIdle
    /\ PipeIdle
    /\ IngIdle

\* Lines 257-272: build and sort all_busy, set the cursor.
FindFreeSlots_Begin ==
    /\ fpc = "call"
    /\ all_busy' = SortByStart(Flatten(busy_data))
    /\ free_slots' = <<>>
    /\ current' = start_time
    /\ idx' = 1
    /\ fpc' = "loop"
    /\ UNCHANGED <<busy_data, start_time, start_aware, end_time, duration_minutes,
                   working_hours, slots_result>>
    /\ UNCHANGED <<routeVars, execVars, recVars, pipeVars, ingVars>>

\* Lines 274-294: one iteration.  busy_start and busy_end are naive; the
\* comparison with an aware cursor raises TypeError, and the cursor is aware
\* only while it still is start_time, that is in the first iteration.
FindFreeSlots_Iterate ==
    /\ fpc = "loop"
    /\ idx <= Len(all_busy)
    /\ IF start_aware
       THEN /\ fpc' = "TypeError"
            /\ UNCHANGED <<free_slots, current, idx>>
       ELSE /\ free_slots' = SlotsAfter(free_slots, current, all_busy[idx],
                                        working_hours, duration_minutes)
            /\ current' = CurrentAfter(current, all_busy[idx])
            /\ idx' = idx + 1
            /\ fpc' = "loop"
    /\ UNCHANGED <<busy_data, start_time, start_aware, end_time, duration_minutes,
                   working_hours, all_busy, slots_result>>
    /\ UNCHANGED <<routeVars, execVars, recVars, pipeVars, ingVars>>

\* Line 296.
FindFreeSlots_Return ==
    /\ fpc = "loop"
    /\ idx > Len(all_busy)
    /\ slots_result' = Truncate(free_slots)
    /\ fpc' = "done"
    /\ UNCHANGED <<busy_data, start_time, start_aware, end_time, duration_minutes,
                   working_hours, all_busy, idx, current, free_slots>>
    /\ UNCHANGED <<routeVars, execVars, recVars, pipeVars, ingVars>>

NextSlots ==
    \/ FindFreeSlots_Begin
    \/ FindFreeSlots_Iterate
    \/ FindFreeSlots_Return

SpecSlots == InitSlots /\ [][NextSlots]_vars

InitRoute ==
    /\ existing_lists \in Boards
    /\ list_ids = <<>>
    /\ task = NoTask
    /\ now = DT(0, 0, 0, 0, 0)
    /\ target_list_id = None
    /\ warnings = 0
    /\ rpc = "setup"
    /\ SlotsIdle
    /\ ExecIdle
    /\ RecIdle
    /\ PipeIdle
    /\ IngIdle

\* setup_board_lists, then setup_trello's test of its result: a list that is
\* on the board keeps its id, a missing one is created, and create_list may
\* fail (it returns None and the key stays out of list_ids).
SetupBoardLists ==
    /\ rpc = "setup"
    /\ \E created \in SUBSET (ListKeys \ existing_lists) :
          list_ids' = [k \in existing_lists \cup created |-> BoardListId(k)]
    /\ rpc' = IF DOMAIN list_ids' = {} THEN "aborted" ELSE "route"
    /\ UNCHANGED <<existing_lists, task, now, target_list_id, warnings>>
    /\ UNCHANGED <<slotVars, execVars, recVars, pipeVars, ingVars>>

\* One call determine_target_list(task, list_ids), the clock read included.
DetermineTargetList ==
    /\ rpc = "route"
    /\ \E tk \in Tasks, n \in Nows :
          /\ task' = tk
          /\ now' = n
          /\ target_list_id' = determine_target_list(tk, list_ids, n)
          /\ warnings' = warnings + WarningsLogged(tk)
    /\ rpc' = "routed"
    /\ UNCHANGED <<existing_lists, list_ids>>
    /\ UNCHANGED <<slotVars, execVars, recVars, pipeVars, ingVars>>

NextRoute ==
    \/ SetupBoardLists
    \/ DetermineTargetList

SpecRoute == InitRoute /\ [][NextRoute]_vars

(***************************************************************************)
(* find_free_slots as one function of its inputs, and find_optimal_slot.   *)
(***************************************************************************)
\* The for loop of lines 274-294 over the sorted list `busy`.
RECURSIVE Sweep(_, _, _, _, _)
Sweep(busy, cur, slots, wh, dur) ==
    IF busy = <<>> THEN slots
    ELSE Sweep(Tail(busy), CurrentAfter(cur, Head(busy)),
               SlotsAfter(slots, cur, Head(busy), wh, dur), wh, dur)

\* find_free_slots(service, dur, start, start + 7 days, None, wh) when
\* get_free_busy answers `data`.  An aware start meets the naive busy_start
\* in the loop's first comparison, which raises TypeError.
find_free_slots(data, start, aware, dur, wh) ==
    LET busy == SortByStart(Flatten(data)) IN
    IF aware /\ busy # <<>>
    THEN [raised |-> TRUE, slots |-> <<>>]
    ELSE [raised |-> FALSE, slots |-> Truncate(Sweep(busy, start, <<>>, wh, dur))]

\* find_optimal_slot: now = datetime.now(timezone.utc) is aware.  The value
\* is <<>> for None and <<(start, end)>> for a slot.
find_optimal_slot(data, n, dur) ==
    LET r == find_free_slots(data, n, TRUE, dur, <<9, 17>>) IN
    IF r.raised \/ r.slots = <<>> THEN <<>>
    ELSE <<Period(r.slots[1].start, r.slots[1].end)>>

FinderOutcome(data, n, dur) ==
    LET r == find_free_slots(data, n, TRUE, dur, <<9, 17>>) IN
    IF r.raised THEN "TypeError"
    ELSE IF r.slots = <<>> THEN "empty" ELSE "slots"

(***************************************************************************)
(* SpecExec: the loop body of execute_tasks (lines 634-676) for one task,  *)
(* run by two executions against one calendar.  Every call of an external  *)
(* service is one step.                                                    *)
(***************************************************************************)
EstimatedMinutes == {-15, 0, 30, 120}
ExecTasks ==
    [ai_priority : {"Critical", "Normal"},
     ai_inferred_deadline : {NoDeadline},
     ai_estimated_minutes : EstimatedMinutes]
FullBoard == [k \in ListKeys |-> BoardListId(k)]
Calendars ==
    { <<>>,
      <<Period(At(0, 10, 0), At(0, 11, 0))>>,
      <<Period(At(0, 9, 0), At(0, 17, 0))>>,
      <<Period(At(0, 9, 0), At(0, 10, 0)), Period(At(0, 11, 0), At(0, 11, 30))>> }

InitExec ==
    /\ calendar \in Calendars
    /\ exec_now = At(0, 9, 0)
    /\ dry_run \in BOOLEAN
    /\ calendar_service \in BOOLEAN
    /\ etask \in [Runs -> ExecTasks]
    /\ etarget = [r \in Runs |-> None]
    /\ result = [r \in Runs |-> None]
    /\ status_updated = [r \in Runs |-> FALSE]
    /\ snapshot = [r \in Runs |-> <<>>]
    /\ finder = [r \in Runs |-> "none"]
    /\ slot = [r \in Runs |-> <<>>]
    /\ event = [r \in Runs |-> <<>>]
    /\ epc = [r \in Runs |-> "route"]
    /\ SlotsIdle
    /\ RouteIdle
    /\ RecIdle
    /\ PipeIdle
    /\ IngIdle

\* get_free_busy: the calendar's busy list, or {} after an HttpError.
FreeBusyAnswers == { calendar, <<>> }

\* Lines 636-652: target list, and the dry-run branch, which searches a slot
\* whatever the estimate is and changes nothing.
RouteTask(r) ==
    /\ epc[r] = "route"
    /\ etarget' = [etarget EXCEPT ![r] =
           determine_target_list(etask[r], FullBoard, [t |-> exec_now, us |-> 0])]
    /\ IF dry_run
       THEN /\ epc' = [epc EXCEPT ![r] = "done"]
            /\ IF calendar_service
               THEN \E answer \in FreeBusyAnswers :
                      /\ snapshot' = [snapshot EXCEPT ![r] = answer]
                      /\ finder' = [finder EXCEPT ![r] =
                             FinderOutcome(<<answer>>, exec_now,
                                           etask[r].ai_estimated_minutes)]
                      /\ slot' = [slot EXCEPT ![r] =
                             find_optimal_slot(<<answer>>, exec_now,
                                               etask[r].ai_estimated_minutes)]
               ELSE UNCHANGED <<snapshot, finder, slot>>
       ELSE /\ epc' = [epc EXCEPT ![r] = "card"]
            /\ UNCHANGED <<snapshot, finder, slot>>
    /\ UNCHANGED <<calendar, exec_now, dry_run, calendar_service, etask, result,
                   status_updated, event>>
    /\ UNCHANGED <<slotVars, routeVars, recVars, pipeVars, ingVars>>

\* Lines 655, 675-676: create_trello_card returns the card or None.
CreateTrelloCard(r) ==
    /\ epc[r] = "card"
    /\ \E created \in BOOLEAN :
          IF created
          THEN /\ result' = [result EXCEPT ![r] = etarget[r]]
               /\ epc' = [epc EXCEPT ![r] = "status"]
          ELSE /\ UNCHANGED result
               /\ epc' = [epc EXCEPT ![r] = "failed"]
    /\ UNCHANGED <<calendar, exec_now, dry_run, calendar_service, etask, etarget,
                   status_updated, snapshot, finder, slot, event>>
    /\ UNCHANGED <<slotVars, routeVars, recVars, pipeVars, ingVars>>

\* Lines 657-663: update_task_execution_status (its errors are logged), then
\* the test that decides whether a slot is searched.
UpdateTaskExecutionStatus(r) ==
    /\ epc[r] = "status"
    /\ \E written \in BOOLEAN :
          status_updated' = [status_updated EXCEPT ![r] = written]
    /\ epc' = [epc EXCEPT ![r] =
           IF calendar_service /\ etask[r].ai_estimated_minutes > 0
           THEN "query" ELSE "done"]
    /\ UNCHANGED <<calendar, exec_now, dry_run, calendar_service, etask, etarget,
                   result, snapshot, finder, slot, event>>
    /\ UNCHANGED <<slotVars, routeVars, recVars, pipeVars, ingVars>>

\* find_optimal_slot -> find_free_slots -> get_free_busy (line 255).
GetFreeBusy(r) ==
    /\ epc[r] = "query"
    /\ \E answer \in FreeBusyAnswers :
          snapshot' = [snapshot EXCEPT ![r] = answer]
    /\ epc' = [epc EXCEPT ![r] = "find"]
    /\ UNCHANGED <<calendar, exec_now, dry_run, calendar_service, etask, etarget,
                   result, status_updated, finder, slot, event>>
    /\ UNCHANGED <<slotVars, routeVars, recVars, pipeVars, ingVars>>

\* The rest of find_optimal_slot, and lines 665-674: with a slot, the event
\* is inserted (create_time_block returns None on HttpError) and from then
\* on the calendar reports it busy.
FindAndSchedule(r) ==
    /\ epc[r] = "find"
    /\ LET found == find_optimal_slot(<<snapshot[r]>>, exec_now,
                                      etask[r].ai_estimated_minutes) IN
       /\ finder' = [finder EXCEPT ![r] =
              FinderOutcome(<<snapshot[r]>>, exec_now,
                            etask[r].ai_estimated_minutes)]
       /\ slot' = [slot EXCEPT ![r] = found]
       /\ IF found # <<>>
          THEN \E inserted \in BOOLEAN :
                 IF inserted
                 THEN /\ event' = [event EXCEPT ![r] = found]
                      /\ calendar' = calendar \o found
                 ELSE UNCHANGED <<event, calendar>>
          ELSE UNCHANGED <<event, calendar>>
    /\ epc' = [epc EXCEPT ![r] = "done"]
    /\ UNCHANGED <<exec_now, dry_run, calendar_service, etask, etarget, result,
                   status_updated, snapshot>>
    /\ UNCHANGED <<slotVars, routeVars, recVars, pipeVars, ingVars>>

NextExec ==
    \E r \in Runs :
        \/ RouteTask(r)
        \/ CreateTrelloCard(r)
        \/ UpdateTaskExecutionStatus(r)
        \/ GetFreeBusy(r)
        \/ FindAndSchedule(r)

SpecExec == InitExec /\ [][NextExec]_vars

(***************************************************************************)
(* generate_recurring.py.  Dates are records [year, month, day] of years   *)
(* without a 29th of February.                                             *)
(***************************************************************************)
GENERATION_WINDOW_DAYS == 3

Date(y, m, d) == [year |-> y, month |-> m, day |-> d]
DaysInMonth == <<31, 28, 31, 30, 31, 30, 31, 31, 30, 31, 30, 31>>
NextDay(d) ==
    IF d.day < DaysInMonth[d.month] THEN Date(d.year, d.month, d.day + 1)
    ELSE IF d.month < 12 THEN Date(d.year, d.month + 1, 1)
    ELSE Date(d.year + 1, 1, 1)
\* d + timedelta(days=n)
RECURSIVE AddDays(_, _)
AddDays(d, n) ==
    IF d.day + n <= DaysInMonth[d.month]
    THEN Date(d.year, d.month, d.day + n)
    ELSE AddDays(NextDay(Date(d.year, d.month, DaysInMonth[d.month])),
                 n - (DaysInMonth[d.month] - d.day) - 1)
\* a <= b on dates
DateLe(a, b) ==
    \/ a.year < b.year
    \/ a.year = b.year /\ a.month < b.month
    \/ a.year = b.year /\ a.month = b.month /\ a.day <= b.day

\* current_due.replace(month=...) raises ValueError when the day does not
\* exist in the target month.
MonthlyRaises(d) == d.month < 12 /\ d.day > DaysInMonth[d.month + 1]
\* update_next_due_date's next_due, lines 168-179.
NextDue(d, recurrence_type) ==
    CASE recurrence_type = "weekly" -> AddDays(d, 7)
      [] recurrence_type = "biweekly" -> AddDays(d, 14)
      [] recurrence_type = "monthly" ->
            IF d.month = 12 THEN Date(d.year + 1, 1, d.day)
            ELSE Date(d.year, d.month + 1, d.day)
      [] OTHER -> AddDays(d, 7)

\* f"recurring:{recurring_id}:{due_date.strftime('%Y-%m-%d')}"
MessageId(recurring_id, due_date) ==
    <<"recurring", recurring_id, due_date.year, due_date.month, due_date.day>>

\* task_already_generated, lines 78-94: False when the query raises.
task_already_generated(rows, recurring_id, due_date, query) ==
    IF query = "error" THEN FALSE
    ELSE \E i \in 1..Len(rows) : rows[i] = MessageId(recurring_id, due_date)

\* ---- inputs ----
MaxRuns == 3
MaxElapsed == 1
MaxFaults == 2
TemplateIds == {"t1", "t2"}
FirstDay == Date(2026, 1, 28)
Today == AddDays(FirstDay, elapsed)
\* "daily" stands for a recurrence type the code does not know.
TemplateRows(id) ==
    IF id = "t1"
    THEN [next_due_at : {Date(2026, 1, 28), Date(2026, 1, 31)},
          recurrence_type : {"weekly", "biweekly", "monthly", "daily"},
          is_active : {TRUE},
          last_generated_at : {None}]
    ELSE [next_due_at : {Date(2026, 1, 29), Date(2026, 2, 10)},
          recurrence_type : {"weekly"},
          is_active : BOOLEAN,
          last_generated_at : {None}]
\* The outcomes of a database call that is made (it answers or raises) and
\* of one that is not made.
DbOutcomes(made) == IF made THEN {"ok", "error"} ELSE {"ok"}
Raised(outcome) == IF outcome = "error" THEN 1 ELSE 0

\* The rows of `table` a fetch returns: active, due by the cutoff, ordered by
\* next_due_at (rows with equal dates in either order).
Due(table) ==
    { id \in DOMAIN table :
        /\ table[id].is_active
        /\ DateLe(table[id].next_due_at, AddDays(Today, GENERATION_WINDOW_DAYS)) }
FetchAnswers(table) ==
    { q \in [1..Cardinality(Due(table)) -> Due(table)] :
        /\ \A i, j \in DOMAIN q : i # j => q[i] # q[j]
        /\ \A i, j \in DOMAIN q :
              i < j => DateLe(table[q[i]].next_due_at, table[q[j]].next_due_at) }
Fetched(table, q) ==
    [i \in DOMAIN q |-> [id |-> q[i],
                         next_due_at |-> table[q[i]].next_due_at,
                         recurrence_type |-> table[q[i]].recurrence_type]]

InitRecurring ==
    /\ recurring_tasks \in
          { f \in [TemplateIds -> UNION { TemplateRows(id) : id \in TemplateIds }] :
              \A id \in TemplateIds : f[id] \in TemplateRows(id) }
    /\ inbox_queue = <<>>
    /\ elapsed = 0
    /\ gen_dry_run = FALSE
    /\ due_tasks = <<>>
    /\ created_count = 0
    /\ skipped_count = 0
    /\ runs = 0
    /\ last_exit = "none"
    /\ faults = 0
    /\ gpc = "idle"
    /\ SlotsIdle
    /\ RouteIdle
    /\ ExecIdle
    /\ PipeIdle
    /\ IngIdle

\* A day passes between two runs.
DayPasses ==
    /\ gpc = "idle"
    /\ elapsed < MaxElapsed
    /\ elapsed' = elapsed + 1
    /\ UNCHANGED <<recurring_tasks, inbox_queue, gen_dry_run, due_tasks,
                   created_count, skipped_count, runs, last_exit, faults, gpc>>
    /\ UNCHANGED <<slotVars, routeVars, execVars, pipeVars, ingVars>>

\* Lines 192-217: a run in mode `dry` starts and fetches; it returns when
\* nothing is due or the fetch failed.
Begin(dry) ==
    /\ gpc = "idle"
    /\ gen_dry_run' = dry
    /\ \E fetch \in DbOutcomes(TRUE) :
          /\ IF fetch = "ok"
             THEN \E q \in FetchAnswers(recurring_tasks) :
                      due_tasks' = Fetched(recurring_tasks, q)
             ELSE due_tasks' = <<>>
          /\ faults + Raised(fetch) <= MaxFaults
          /\ faults' = faults + Raised(fetch)
    /\ created_count' = 0
    /\ skipped_count' = 0
    /\ gpc' = IF due_tasks' = <<>> THEN "idle" ELSE "loop"
    /\ last_exit' = IF due_tasks' = <<>> THEN "returned" ELSE last_exit
    /\ UNCHANGED <<recurring_tasks, inbox_queue, elapsed>>
    /\ UNCHANGED <<slotVars, routeVars, execVars, pipeVars, ingVars>>

GenerateRecurringTasks_Begin ==
    /\ runs < MaxRuns
    /\ runs' = runs + 1
    /\ \E dry \in BOOLEAN : Begin(dry)

\* Lines 223-231: one iteration, create_task_from_recurring and
\* update_next_due_date with the outcomes of the database calls they make.
GenerateRecurringTasks_Iterate ==
    /\ gpc = "loop"
    /\ due_tasks # <<>>
    /\ \E query \in DbOutcomes(TRUE) :
        LET recurring == Head(due_tasks)
            exists == task_already_generated(inbox_queue, recurring.id,
                                             recurring.next_due_at, query)
            inserts == ~exists /\ ~gen_dry_run
        IN
        \E insert \in DbOutcomes(inserts) :
        LET inserted == inserts /\ insert = "ok"
            result_truthy == ~exists /\ (gen_dry_run \/ insert = "ok")
            raises == /\ inserted
                      /\ recurring.recurrence_type = "monthly"
                      /\ MonthlyRaises(recurring.next_due_at)
            updates == inserted /\ ~raises
        IN
        \E update \in DbOutcomes(updates) :
        /\ inbox_queue' =
              IF inserted
              THEN Append(inbox_queue,
                          MessageId(recurring.id, recurring.next_due_at))
              ELSE inbox_queue
        /\ created_count' = IF result_truthy THEN created_count + 1 ELSE created_count
        /\ skipped_count' = IF result_truthy THEN skipped_count ELSE skipped_count + 1
        /\ recurring_tasks' =
              IF updates /\ update = "ok"
              THEN [recurring_tasks EXCEPT
                      ![recurring.id].next_due_at =
                          NextDue(recurring.next_due_at, recurring.recurrence_type),
                      ![recurring.id].last_generated_at = Today]
              ELSE recurring_tasks
        /\ faults + Raised(query) + Raised(insert) + Raised(update) <= MaxFaults
        /\ faults' = faults + Raised(query) + Raised(insert) + Raised(update)
        /\ due_tasks' = IF raises THEN <<>> ELSE Tail(due_tasks)
        /\ gpc' = IF raises \/ Tail(due_tasks) = <<>> THEN "idle" ELSE "loop"
        /\ last_exit' = IF raises THEN "ValueError"
                        ELSE IF Tail(due_tasks) = <<>> THEN "returned"
                        ELSE last_exit
    /\ UNCHANGED <<elapsed, gen_dry_run, runs>>
    /\ UNCHANGED <<slotVars, routeVars, execVars, pipeVars, ingVars>>

NextRecurring ==
    \/ DayPasses
    \/ GenerateRecurringTasks_Begin
    \/ GenerateRecurringTasks_Iterate

SpecRecurring == InitRecurring /\ [][NextRecurring]_vars

\* The generator run again and again in non-dry-run mode (the scheduled
\* job): runs are not limited, the counter stops at MaxRuns.  A run that can
\* start does start, and a run that has started goes on.
GenerateRecurringTasks_Scheduled ==
    /\ runs' = IF runs < MaxRuns THEN runs + 1 ELSE runs
    /\ Begin(FALSE)

NextRecurringLive ==
    \/ DayPasses
    \/ GenerateRecurringTasks_Scheduled
    \/ GenerateRecurringTasks_Iterate

SpecRecurringLive ==
    /\ InitRecurring
    /\ [][NextRecurringLive]_vars
    /\ WF_vars(DayPasses)
    /\ WF_vars(GenerateRecurringTasks_Scheduled)
    /\ WF_vars(GenerateRecurringTasks_Iterate)

(***************************************************************************)
(* SpecPipeline: execute_tasks as a whole (lines 577-684), run after run   *)
(* against one inbox_queue table, one Trello account and one calendar.     *)
(* Every run fetches, sets the board up and walks the fetched tasks.       *)
(***************************************************************************)
MaxPipeRuns == 2
MaxPipeFaults == 2
TaskIds == {"k1", "k2"}
\* The keys of DOMAIN_COLORS.
DOMAIN_COLORS == {"Clinical", "Research", "Admin", "Home", "Hobby"}
\* The columns of a row that execute_tasks reads and never writes.
TaskColumns(id) ==
    IF id = "k1"
    THEN [ai_priority |-> "Normal", ai_inferred_deadline |-> NoDeadline,
          ai_estimated_minutes |-> 30, ai_domain |-> "Clinical"]
    ELSE [ai_priority |-> "Critical", ai_inferred_deadline |-> NoDeadline,
          ai_estimated_minutes |-> 0, ai_domain |-> "Unknown"]
\* datetime.now() of the run.
PipeNow == At(0, 9, 0)

\* .eq('status', 'approved').eq('execution_status', 'pending')
PendingApproved(table) ==
    { id \in DOMAIN table : /\ table[id].status = "approved"
                            /\ table[id].execution_status = "pending" }
\* .order('created_at', desc=True): k2 was created after k1.
RECURSIVE ByCreatedAtDesc(_)
ByCreatedAtDesc(S) ==
    IF S = {} THEN <<>>
    ELSE LET latest == IF "k2" \in S THEN "k2" ELSE CHOOSE id \in S : TRUE
         IN <<latest>> \o ByCreatedAtDesc(S \ {latest})
\* fetch_pending_approved_tasks: the rows, or [] when the query raises.
fetch_pending_approved_tasks(table, query) ==
    IF query = "ok" THEN ByCreatedAtDesc(PendingApproved(table)) ELSE <<>>

\* Trello accounts: no board, a board with every list, a board without the
\* Later list.
NoLists == [k \in ListKeys |-> 0]
TrelloAccounts ==
    { [board |-> FALSE, lists |-> NoLists, labels |-> {},
       cards |-> [id \in TaskIds |-> 0]],
      [board |-> TRUE, lists |-> [k \in ListKeys |-> 1], labels |-> {},
       cards |-> [id \in TaskIds |-> 0]],
      [board |-> TRUE,
       lists |-> [k \in ListKeys |-> IF k \in {"today", "completed"} THEN 1 ELSE 0],
       labels |-> {}, cards |-> [id \in TaskIds |-> 0]] }
QueueRows ==
    [status : {"approved", "pending"}, execution_status : {"pending"},
     trello_card_id : {None}, calendar_event_id : {None}]

InitPipeline ==
    /\ queue \in [TaskIds -> QueueRows]
    /\ trello \in TrelloAccounts
    /\ gcal \in { <<>>, <<Period(At(0, 10, 0), At(0, 11, 0))>> }
    /\ pipe_dry_run = FALSE
    /\ pipe_service = FALSE
    /\ tasks = <<>>
    /\ fetched_count = 0
    /\ run_list_ids = <<>>
    /\ card = None
    /\ success_count = 0
    /\ fail_count = 0
    /\ scheduled_count = 0
    /\ steps = <<>>
    /\ before = <<queue, trello, gcal>>
    /\ pipe_runs = 0
    /\ pipe_faults = 0
    /\ pipe_exit = "none"
    /\ ppc = "idle"
    /\ SlotsIdle
    /\ RouteIdle
    /\ ExecIdle
    /\ RecIdle
    /\ IngIdle

\* Lines 591-632: the run starts, fetches, and returns when there is nothing
\* to do; the counters start at zero.
ExecuteTasks_Begin ==
    /\ ppc = "idle"
    /\ pipe_runs < MaxPipeRuns
    /\ pipe_runs' = pipe_runs + 1
    /\ \E dry \in BOOLEAN, service \in BOOLEAN, query \in DbOutcomes(TRUE) :
          /\ pipe_faults + Raised(query) <= MaxPipeFaults
          /\ pipe_faults' = pipe_faults + Raised(query)
          /\ pipe_dry_run' = dry
          /\ pipe_service' = service
          /\ tasks' = fetch_pending_approved_tasks(queue, query)
          /\ fetched_count' = Len(fetch_pending_approved_tasks(queue, query))
          /\ ppc' = IF fetch_pending_approved_tasks(queue, query) = <<>>
                    THEN "idle" ELSE "setup"
          /\ pipe_exit' = IF fetch_pending_approved_tasks(queue, query) = <<>>
                          THEN "returned" ELSE "running"
    /\ run_list_ids' = <<>>
    /\ card' = None
    /\ success_count' = 0
    /\ fail_count' = 0
    /\ scheduled_count' = 0
    /\ steps' = <<>>
    /\ before' = <<queue, trello, gcal>>
    /\ UNCHANGED <<queue, trello, gcal>>
    /\ UNCHANGED <<slotVars, routeVars, execVars, recVars, ingVars>>

\* setup_trello (lines 554-574): get_or_create_board finds the board or
\* creates it; setup_board_lists keeps the lists get_board_lists reports
\* (none when that call fails) and creates the others, create_list failing
\* for the keys in `failed`.
SetupTrello ==
    /\ ppc = "setup"
    /\ \E board_call \in DbOutcomes(TRUE), lists_call \in DbOutcomes(TRUE),
          failed \in SUBSET ListKeys :
        LET existing == IF lists_call = "ok"
                        THEN { k \in ListKeys : trello.lists[k] > 0 } ELSE {}
            missing == ListKeys \ existing
            created == missing \ failed
            ids == [k \in existing \cup created |-> BoardListId(k)]
            spent == Raised(board_call)
                     + (IF board_call = "ok"
                        THEN Raised(lists_call) + Cardinality(failed) ELSE 0)
        IN
        /\ failed \subseteq missing
        /\ board_call = "error" => lists_call = "ok" /\ failed = {}
        /\ pipe_faults + spent <= MaxPipeFaults
        /\ pipe_faults' = pipe_faults + spent
        /\ IF board_call = "error"
           THEN /\ UNCHANGED <<trello, run_list_ids>>
                /\ ppc' = "idle"
                /\ pipe_exit' = "aborted"
           ELSE /\ trello' = [trello EXCEPT
                                !.board = TRUE,
                                !.lists = [k \in ListKeys |->
                                             IF k \in created THEN @[k] + 1 ELSE @[k]]]
                /\ run_list_ids' = ids
                /\ ppc' = IF DOMAIN ids = {} THEN "idle" ELSE "loop"
                /\ pipe_exit' = IF DOMAIN ids = {} THEN "aborted" ELSE pipe_exit
    /\ UNCHANGED <<queue, gcal, pipe_dry_run, pipe_service, tasks, fetched_count,
                   card, success_count, fail_count, scheduled_count, steps,
                   before, pipe_runs>>
    /\ UNCHANGED <<slotVars, routeVars, execVars, recVars, ingVars>>

\* The end of a loop iteration: the next task, or the summary (lines 678-684).
PcAfterTask == IF Tail(tasks) = <<>> THEN "idle" ELSE "loop"
ExitAfterTask == IF Tail(tasks) = <<>> THEN "summary" ELSE pipe_exit
TargetOf(id) ==
    determine_target_list(TaskColumns(id), run_list_ids, [t |-> PipeNow, us |-> 0])

\* Lines 634-652, dry-run branch: the list name is looked up (IndexError when
\* no list was found), a slot is searched when there is a calendar service.
DryRunTask ==
    /\ ppc = "loop"
    /\ pipe_dry_run
    /\ tasks # <<>>
    /\ LET id == Head(tasks) IN
       IF TargetOf(id) = None
       THEN /\ ppc' = "idle"
            /\ pipe_exit' = "IndexError"
            /\ UNCHANGED <<tasks, success_count, steps>>
       ELSE /\ steps' = IF pipe_service THEN Append(steps, <<"search", id>>)
                        ELSE steps
            /\ success_count' = success_count + 1
            /\ tasks' = Tail(tasks)
            /\ ppc' = PcAfterTask
            /\ pipe_exit' = ExitAfterTask
    /\ UNCHANGED <<queue, trello, gcal, pipe_dry_run, pipe_service, fetched_count,
                   run_list_ids, card, fail_count, scheduled_count, before,
                   pipe_runs, pipe_faults>>
    /\ UNCHANGED <<slotVars, routeVars, execVars, recVars, ingVars>>

\* A loop that goes on to the status update whatever create_trello_card
\* returned.
PcAfterCard_AlwaysStatus(truthy) == "status"
\* What follows create_trello_card's value (lines 657, 675-676).
PcAfterCard(truthy) == IF truthy THEN "status" ELSE PcAfterTask

\* Lines 634-655 and create_trello_card (283-377).  The card is posted; for a
\* domain of DOMAIN_COLORS the label is fetched or created and attached.
\*   label = "attached"  the label exists now and the attach call returned
\*   label = "none"      get_or_create_label returned None
\*   label = "raised"    the attach call raised RequestException: the
\*                       function returns None although the card exists
CreateTrelloCard_InRun ==
    /\ ppc = "loop"
    /\ ~pipe_dry_run
    /\ tasks # <<>>
    /\ \E post \in DbOutcomes(TRUE), label \in {"attached", "none", "raised"} :
        LET id == Head(tasks)
            domain == TaskColumns(id).ai_domain
            labelled == post = "ok" /\ domain \in DOMAIN_COLORS
            spent == Raised(post) + (IF label = "attached" THEN 0 ELSE 1)
            truthy == post = "ok" /\ label # "raised"
        IN
        /\ TargetOf(id) = None => post = "error"
        /\ ~labelled => label = "attached"
        /\ pipe_faults + spent <= MaxPipeFaults
        /\ pipe_faults' = pipe_faults + spent
        /\ trello' = [trello EXCEPT
                        !.cards[id] = IF post = "ok" THEN @ + 1 ELSE @,
                        !.labels = IF labelled /\ label # "none"
                                   THEN @ \cup {domain} ELSE @]
        /\ card' = IF truthy THEN TargetOf(id) ELSE None
        /\ steps' = Append(steps, <<IF truthy THEN "card" ELSE "card_failed", id>>)
        /\ fail_count' = IF truthy THEN fail_count ELSE fail_count + 1
        /\ tasks' = IF PcAfterCard(truthy) = "status" THEN tasks ELSE Tail(tasks)
        /\ ppc' = PcAfterCard(truthy)
        /\ pipe_exit' = IF PcAfterCard(truthy) = "status" THEN pipe_exit
                        ELSE ExitAfterTask
    /\ UNCHANGED <<queue, gcal, pipe_dry_run, pipe_service, fetched_count,
                   run_list_ids, success_count, scheduled_count, before,
                   pipe_runs>>
    /\ UNCHANGED <<slotVars, routeVars, execVars, recVars, ingVars>>

\* Lines 658-663: update_task_execution_status (402-422; its errors are
\* logged), the counter, and the test that decides whether a slot is searched.
UpdateTaskExecutionStatus_InRun ==
    /\ ppc = "status"
    /\ \E update \in DbOutcomes(TRUE) :
        LET id == Head(tasks)
            schedules == pipe_service /\ TaskColumns(id).ai_estimated_minutes > 0
        IN
        /\ pipe_faults + Raised(update) <= MaxPipeFaults
        /\ pipe_faults' = pipe_faults + Raised(update)
        /\ queue' = IF update = "ok"
                    THEN [queue EXCEPT ![id].execution_status = "scheduled",
                                       ![id].trello_card_id = card]
                    ELSE queue
        /\ steps' = IF update = "ok" THEN Append(steps, <<"status", id>>) ELSE steps
        /\ success_count' = success_count + 1
        /\ tasks' = IF schedules THEN tasks ELSE Tail(tasks)
        /\ ppc' = IF schedules THEN "schedule" ELSE PcAfterTask
        /\ pipe_exit' = IF schedules THEN pipe_exit ELSE ExitAfterTask
    /\ UNCHANGED <<trello, gcal, pipe_dry_run, pipe_service, fetched_count,
                   run_list_ids, card, fail_count, scheduled_count, before,
                   pipe_runs>>
    /\ UNCHANGED <<slotVars, routeVars, execVars, recVars, ingVars>>

\* Lines 664-674: find_optimal_slot on the answer of get_free_busy; with a
\* slot the event is inserted (create_time_block returns None on HttpError),
\* and with an event the row gets its calendar fields (errors are logged).
ScheduleTask ==
    /\ ppc = "schedule"
    /\ \E answer \in { gcal, <<>> }, insert \in DbOutcomes(TRUE),
          update \in DbOutcomes(TRUE) :
        LET id == Head(tasks)
            found == find_optimal_slot(<<answer>>, PipeNow,
                                       TaskColumns(id).ai_estimated_minutes)
            event_id == found # <<>> /\ insert = "ok"
            written == event_id /\ update = "ok"
            spent == (IF answer = gcal THEN 0 ELSE 1)
                     + (IF found # <<>> THEN Raised(insert) ELSE 0)
                     + (IF event_id THEN Raised(update) ELSE 0)
        IN
        /\ found = <<>> => insert = "ok"
        /\ ~event_id => update = "ok"
        /\ pipe_faults + spent <= MaxPipeFaults
        /\ pipe_faults' = pipe_faults + spent
        /\ gcal' = IF event_id THEN gcal \o found ELSE gcal
        /\ queue' = IF written THEN [queue EXCEPT ![id].calendar_event_id = found]
                    ELSE queue
        /\ steps' = steps \o <<<<"search", id>>>>
                          \o (IF event_id THEN <<<<"event", id>>>> ELSE <<>>)
                          \o (IF written THEN <<<<"calendar_fields", id>>>> ELSE <<>>)
        /\ scheduled_count' = IF event_id THEN scheduled_count + 1
                              ELSE scheduled_count
    /\ tasks' = Tail(tasks)
    /\ ppc' = PcAfterTask
    /\ pipe_exit' = ExitAfterTask
    /\ UNCHANGED <<trello, pipe_dry_run, pipe_service, fetched_count,
                   run_list_ids, card, success_count, fail_count, before,
                   pipe_runs>>
    /\ UNCHANGED <<slotVars, routeVars, execVars, recVars, ingVars>>

NextPipeline ==
    \/ ExecuteTasks_Begin
    \/ SetupTrello
    \/ DryRunTask
    \/ CreateTrelloCard_InRun
    \/ UpdateTaskExecutionStatus_InRun
    \/ ScheduleTask

SpecPipeline == InitPipeline /\ [][NextPipeline]_vars

(***************************************************************************)
(* SpecIngest: main of ingest_hub.py (lines 491-572), run after run over   *)
(* one mailbox and one inbox_queue table.  One step is one iteration of    *)
(* the loop over the fetched emails, with the outcome of every call.       *)
(***************************************************************************)
MaxIngestRuns == 2
MaxIngestFaults == 2
EmailIds == {"e1", "e2", "e3"}
\* The emails whose original sender matches an active blocklist pattern.
Blocklisted == {"e1"}
\* messages().list(q='is:unread'): the unread messages, in a fixed order.
RECURSIVE InOrder(_)
InOrder(S) ==
    IF S = {} THEN <<>>
    ELSE LET first == CHOOSE id \in S : \A other \in S :
                          (id = "e1") \/ (id = "e2" /\ other # "e1") \/ (id = other)
         IN <<first>> \o InOrder(S \ {first})
\* The outcomes of fetch_unread_emails' calls taken together:
\*   ok         messages().list answered; messages().get answered, or raised
\*              HttpError for the messages in `dropped`
\*   HttpError  messages().list raised HttpError
\*   raised     a call raised another exception, which leaves the function
FetchOutcomes == {"ok", "HttpError", "raised"}
\* fetch_unread_emails: the unread emails whose details could be read
\* (get_email_details returns None on HttpError and the message is left
\* out), or [] when listing raised HttpError.
fetch_unread_emails(mailbox, list_call, dropped) ==
    IF list_call = "ok" THEN InOrder(mailbox \ dropped) ELSE <<>>
\* check_blocklist: a match with an active pattern; False when the query raises.
check_blocklist(id, query) == query = "ok" /\ id \in Blocklisted
\* mark_email_as_read: HttpError is caught and logged, any other exception
\* leaves the function.
MarkOutcomes == {"ok", "HttpError", "raised"}
\* analyze_with_gemini returns the assessment or None; load_system_prompt,
\* called outside its try block, may raise.
AnalysisOutcomes == {"ok", "None", "raised"}

InitIngest ==
    /\ unread \in (SUBSET EmailIds) \ {{}}
    /\ stored = {}
    /\ ing_dry_run = FALSE
    /\ emails = <<>>
    /\ emails_fetched = 0
    /\ handled = <<>>
    /\ processed_count = 0
    /\ blocked_count = 0
    /\ error_count = 0
    /\ ing_runs = 0
    /\ ing_faults = 0
    /\ ing_exit = "none"
    /\ ipc = "idle"
    /\ SlotsIdle
    /\ RouteIdle
    /\ ExecIdle
    /\ RecIdle
    /\ PipeIdle

\* Lines 515-527: the run fetches the unread emails and returns when there
\* are none; an exception of the fetch other than HttpError leaves main.
\* The counters start at zero.
Main_Begin ==
    /\ ipc = "idle"
    /\ ing_runs < MaxIngestRuns
    /\ ing_runs' = ing_runs + 1
    /\ \E dry \in BOOLEAN, list_call \in FetchOutcomes,
          dropped \in SUBSET unread :
        LET spent == (IF list_call = "ok" THEN 0 ELSE 1) + Cardinality(dropped)
            fetched == fetch_unread_emails(unread, list_call, dropped)
        IN
        /\ list_call # "ok" => dropped = {}
        /\ ing_faults + spent <= MaxIngestFaults
        /\ ing_faults' = ing_faults + spent
        /\ ing_dry_run' = dry
        /\ emails' = fetched
        /\ emails_fetched' = Len(fetched)
        /\ ipc' = IF fetched = <<>> THEN "idle" ELSE "loop"
        /\ ing_exit' = IF list_call = "raised" THEN "raised"
                       ELSE IF fetched = <<>> THEN "returned" ELSE "running"
    /\ handled' = <<>>
    /\ processed_count' = 0
    /\ blocked_count' = 0
    /\ error_count' = 0
    /\ UNCHANGED <<unread, stored>>
    /\ UNCHANGED <<slotVars, routeVars, execVars, recVars, pipeVars>>

\* The counters an iteration increments, from the outcomes of its calls.
Counted(blocked, analysis, mark) ==
    IF blocked
    THEN IF mark = "raised" THEN {"blocked", "error"} ELSE {"blocked"}
    ELSE IF analysis # "ok" \/ mark = "raised" THEN {"error"}
    ELSE {"processed"}

\* Lines 529-564: one iteration of the loop.
\*   query     the blocklist query of check_blocklist
\*   analysis  analyze_with_gemini
\*   save      the upsert of save_to_inbox_queue (its error is logged)
\*   mark      mark_email_as_read
Main_Iterate ==
    /\ ipc = "loop"
    /\ emails # <<>>
    /\ \E query \in DbOutcomes(TRUE), analysis \in AnalysisOutcomes,
          save \in DbOutcomes(TRUE), mark \in MarkOutcomes :
        LET id == Head(emails)
            blocked == check_blocklist(id, query)
            analysed == ~blocked /\ analysis = "ok"
            saves == analysed /\ ~ing_dry_run
            marks == (blocked \/ analysed) /\ ~ing_dry_run
            spent == Raised(query)
                     + (IF ~blocked /\ analysis # "ok" THEN 1 ELSE 0)
                     + (IF saves THEN Raised(save) ELSE 0)
                     + (IF marks /\ mark # "ok" THEN 1 ELSE 0)
            counted == Counted(blocked, analysis, IF marks THEN mark ELSE "ok")
        IN
        /\ blocked => analysis = "ok"
        /\ ~saves => save = "ok"
        /\ ~marks => mark = "ok"
        /\ ing_faults + spent <= MaxIngestFaults
        /\ ing_faults' = ing_faults + spent
        /\ stored' = IF saves /\ save = "ok" THEN stored \cup {id} ELSE stored
        /\ unread' = IF marks /\ mark = "ok" THEN unread \ {id} ELSE unread
        /\ handled' = [k \in DOMAIN handled \cup {id} |->
                         IF k = id
                         THEN [blocked |-> blocked,
                               analysis |-> IF blocked THEN "skipped" ELSE analysis,
                               raised |-> (~blocked /\ analysis = "raised")
                                          \/ (marks /\ mark = "raised"),
                               counted |-> counted]
                         ELSE handled[k]]
        /\ processed_count' = processed_count
                              + (IF "processed" \in counted THEN 1 ELSE 0)
        /\ blocked_count' = blocked_count + (IF "blocked" \in counted THEN 1 ELSE 0)
        /\ error_count' = error_count + (IF "error" \in counted THEN 1 ELSE 0)
    /\ emails' = Tail(emails)
    /\ ipc' = IF Tail(emails) = <<>> THEN "idle" ELSE "loop"
    /\ ing_exit' = IF Tail(emails) = <<>> THEN "summary" ELSE ing_exit
    /\ UNCHANGED <<ing_dry_run, emails_fetched, ing_runs>>
    /\ UNCHANGED <<slotVars, routeVars, execVars, recVars, pipeVars>>

NextIngest ==
    \/ Main_Begin
    \/ Main_Iterate

SpecIngest == InitIngest /\ [][NextIngest]_vars

(***************************************************************************)
(* Properties of determine_target_list, checked under SpecRoute.           *)
(***************************************************************************)
Buckets == {"today", "tomorrow", "this_week", "later"}
Routed == rpc = "routed"
AllBucketsMapped == Buckets \subseteq DOMAIN list_ids
\* C3: a task that is not Critical and has a parseable deadline goes to Today
\* when deadline <= end_of_day(now), else to Tomorrow when deadline <=
\* end_of_day(now + 1 day), else to ThisWeek when deadline <= end_of_day(now +
\* 7 days), else to Later, whatever its priority; end_of_day is 23:59:59
\* sharp (stated for a board that has the four lists).
C3_DeadlineDecidesBucket ==
    LET end_of_day(dt) == [t |-> At(date(dt.t), 23, 59) + 59, us |-> 0]
        deadline == ParseDeadline(task.ai_inferred_deadline)
        bucket ==
            IF Le(deadline, end_of_day(now)) THEN "today"
            ELSE IF Le(deadline, end_of_day(plus_days(now, 1))) THEN "tomorrow"
            ELSE IF Le(deadline, end_of_day(plus_days(now, 7))) THEN "this_week"
            ELSE "later"
    IN  (/\ Routed /\ AllBucketsMapped
         /\ task.ai_priority # "Critical"
         /\ task.ai_inferred_deadline.kind = "iso") =>
            target_list_id = BoardListId(bucket)

\* C4: a Critical task goes to the Today list for every value of its deadline
\* (absent, past, near, far, unparsable), the Today list being on the board.
C4_CriticalGoesToday ==
    (Routed /\ task.ai_priority = "Critical" /\ "today" \in DOMAIN list_ids) =>
        target_list_id = BoardListId("today")

\* C4 witness: a Critical task whose deadline lies more than 7 days after now
\* has been routed to the Today list.
C4_Witness ==
    /\ Routed
    /\ task.ai_priority = "Critical"
    /\ task.ai_inferred_deadline.kind = "iso"
    /\ ~Le(task.ai_inferred_deadline.wall, replace_23_59_59(plus_days(now, 7)))
    /\ target_list_id = BoardListId("today")

\* C5: a task with no deadline goes to the ThisWeek list when its priority is
\* High and to the Later list when its priority is Normal, Low or missing
\* (the list in question being on the board).
C5_NoDeadlineByPriority ==
    (Routed /\ ~Truthy(task.ai_inferred_deadline)) =>
        /\ (task.ai_priority = "High" /\ "this_week" \in DOMAIN list_ids) =>
               target_list_id = BoardListId("this_week")
        /\ (task.ai_priority \in {"Normal", "Low", None} /\ "later" \in DOMAIN list_ids) =>
               target_list_id = BoardListId("later")

\* C5 witness: a High task without a deadline has been routed to ThisWeek
\* on a board that also has a Later list.
C5_Witness ==
    /\ Routed
    /\ task.ai_priority = "High"
    /\ task.ai_inferred_deadline.kind = "None"
    /\ "later" \in DOMAIN list_ids
    /\ target_list_id = BoardListId("this_week")

\* C6: every routed task gets exactly one destination out of Today, Tomorrow,
\* ThisWeek and Later, also when lists are missing from the board mapping.
C6_AlwaysOneBucket ==
    Routed => target_list_id \in { BoardListId(k) : k \in Buckets }

\* C7 as stated: a task whose deadline cannot be parsed is routed like the
\* same task without a deadline, and the failure is reported as one warning
\* (stated for a board that has the four lists).
WithoutDeadline(tk) == [tk EXCEPT !.ai_inferred_deadline = NoDeadline]
Unparsable(d) == Truthy(d) /\ DeadlineRaises(d)
C7_UnparsableWarned ==
    (Routed /\ AllBucketsMapped /\ Unparsable(task.ai_inferred_deadline)) =>
        /\ target_list_id = determine_target_list(WithoutDeadline(task), list_ids, now)
        /\ warnings = 1

\* C7 as amended: a task whose deadline cannot be parsed is routed like the
\* same task without a deadline and routing returns; the failure is reported
\* as one warning when the task is not Critical, and not at all when it is
\* Critical (its deadline is never read).
C7_UnparsableAsAbsent ==
    (Routed /\ Unparsable(task.ai_inferred_deadline)) =>
        /\ target_list_id = determine_target_list(WithoutDeadline(task), list_ids, now)
        /\ warnings = IF task.ai_priority = "Critical" THEN 0 ELSE 1

\* C7 witness: a High task with an unparsable deadline string has been routed
\* to ThisWeek and one warning was logged.
C7_Witness ==
    /\ Routed
    /\ task.ai_priority = "High"
    /\ task.ai_inferred_deadline.kind = "text"
    /\ target_list_id = BoardListId("this_week")
    /\ warnings = 1

(***************************************************************************)
(* Properties of find_free_slots, checked under SpecSlots.                 *)
(***************************************************************************)
WellFormed(p) == p.start < p.end
RawBusy == Flatten(busy_data)
InHours(t, wh) == hour(t) >= wh[1] /\ hour(t) <= wh[2]
Sweeping == fpc \in {"loop", "done"}

\* C1: every returned slot lasts exactly the requested duration, and its
\* start and its end both lie inside the working hours [start_hour, end_hour]
\* of one and the same calendar day.
C1_SlotInsideWorkingDay ==
    fpc = "done" =>
        \A i \in 1..Len(slots_result) :
            LET s == slots_result[i] IN
            /\ s.end - s.start = timedelta_minutes(duration_minutes)
            /\ date(s.start) = date(s.end)
            /\ InHours(s.start, working_hours)
            /\ InHours(s.end, working_hours)

\* C2: the busy timeline the slot finder walks is sorted ascending by start
\* and mutually non-overlapping, adjacent intervals satisfying
\* i.end <= (i+1).start (stated here for well-formed input only).
C2_TimelineNonOverlapping ==
    (Sweeping /\ \A k \in 1..Len(RawBusy) : WellFormed(RawBusy[k])) =>
        /\ \A i \in 1..(Len(all_busy) - 1) :
              all_busy[i].start <= all_busy[i + 1].start
        /\ \A i \in 1..(Len(all_busy) - 1) :
              all_busy[i].end <= all_busy[i + 1].start

\* The gap test of the loop applied to the region [current, end_time].
FinalGapQualifies ==
    /\ end_time > current
    /\ GapQualifies(current, end_time, working_hours, duration_minutes)
\* C8: the region from the cursor to end_time is one more candidate gap under
\* the same rule: when it passes the working-hours and duration test, a slot
\* starting at the cursor is returned.
C8_FinalGapEvaluated ==
    (fpc = "done" /\ FinalGapQualifies /\ Len(free_slots) < SlotLimit) =>
        \E i \in 1..Len(slots_result) : slots_result[i].start = current

\* C9: an iteration whose candidate gap starts and ends on different calendar
\* days appends no slot.
C9_CrossDayGapRejected ==
    [][(/\ fpc = "loop" /\ idx <= Len(all_busy) /\ ~start_aware
        /\ all_busy[idx].start > current
        /\ date(all_busy[idx].start) # date(current))
       => free_slots' = free_slots]_vars

\* C10: find_free_slots returns normally only when no interval of the raw
\* busy data is malformed (start >= end); otherwise it ends with an error and
\* returns nothing.
C10_MalformedRejected ==
    fpc = "done" => \A k \in 1..Len(RawBusy) : WellFormed(RawBusy[k])

\* C11: building the timeline is idempotent: a timeline that is already
\* sorted and non-overlapping is returned unchanged, and building it again
\* from its own output changes nothing.
SortedNonOverlapping(s) ==
    /\ \A k \in 1..Len(s) : WellFormed(s[k])
    /\ \A i \in 1..(Len(s) - 1) : s[i].end <= s[i + 1].start
C11_MergeIdempotent ==
    Sweeping =>
        /\ SortByStart(Flatten(<<all_busy>>)) = all_busy
        /\ SortedNonOverlapping(RawBusy) => all_busy = RawBusy

\* C11 witness: two periods with the same start arrived from two calendars
\* and the timeline built from them is being walked.
C11_Witness ==
    /\ Sweeping
    /\ Len(RawBusy) = 2
    /\ RawBusy[1].start = RawBusy[2].start
    /\ RawBusy[1].end > RawBusy[2].end
    /\ all_busy = RawBusy

\* C12: the timeline covers exactly the union of the input intervals;
\* intervals that overlap or touch are coalesced into one, so adjacent
\* intervals of the timeline are strictly apart, and [09:00,10:30] with
\* [10:00,11:00] becomes [09:00,11:00]; the output has no more intervals than
\* the input and empty input gives an empty timeline (stated for well-formed
\* input).
ScenarioOverlap ==
    <<Period(At(0, 9, 0), At(0, 10, 30)), Period(At(0, 10, 0), At(0, 11, 0))>>
C12_OverlapsCoalesced ==
    LET covered(seq, t) ==
            \E k \in 1..Len(seq) : seq[k].start <= t /\ t < seq[k].end
        points == { At(d, h, m) : d \in 0..1, h \in 8..17, m \in {0, 15, 30, 45} }
    IN  (Sweeping /\ \A k \in 1..Len(RawBusy) : WellFormed(RawBusy[k])) =>
            /\ \A t \in points : covered(all_busy, t) <=> covered(RawBusy, t)
            /\ \A i \in 1..(Len(all_busy) - 1) :
                  all_busy[i].end < all_busy[i + 1].start
            /\ RawBusy = ScenarioOverlap =>
                   all_busy = <<Period(At(0, 9, 0), At(0, 11, 0))>>
            /\ Len(all_busy) <= Len(RawBusy)
            /\ RawBusy = <<>> => all_busy = <<>>

\* C13: the slots returned are in strictly ascending order of start, there
\* are at most SlotLimit of them, and when more gaps qualified the ones
\* returned are the earliest.
C13_AscendingAndLimited ==
    fpc = "done" =>
        /\ \A i \in 1..(Len(slots_result) - 1) :
              slots_result[i].start < slots_result[i + 1].start
        /\ Len(slots_result) <= SlotLimit
        /\ \A i \in 1..Len(slots_result) : slots_result[i] = free_slots[i]
        /\ \A k \in (Len(slots_result) + 1)..Len(free_slots) :
              free_slots[k].start > slots_result[Len(slots_result)].start

\* C14: a step that appends a slot starts it exactly at the cursor, which
\* is the window start or the end of a preceding busy interval, and records
\* as gap size the minutes from the cursor to the next busy interval's
\* start, which are at least the requested duration.
C14_SlotAtGapStart ==
    [][ (fpc = "loop" /\ Len(free_slots') > Len(free_slots)) =>
          LET s == free_slots'[Len(free_slots')] IN
          /\ Len(free_slots') = Len(free_slots) + 1
          /\ s.start = current
          /\ \/ current = start_time
             \/ \E k \in 1..(idx - 1) : all_busy[k].end = current
          /\ s.gap_size_minutes = (all_busy[idx].start - current) \div 60
          /\ s.gap_size_minutes >= duration_minutes
          /\ s.end <= all_busy[idx].start ]_vars

\* C14 witness: a slot found after a busy interval, in a gap longer than the
\* requested duration.
C14_Witness ==
    /\ fpc = "done"
    /\ \E i \in 1..Len(slots_result) :
          /\ slots_result[i].start > start_time
          /\ slots_result[i].gap_size_minutes > duration_minutes

\* C19: the first slot returned is at the earliest gap of the window that
\* meets the duration and working-hours rule: the gaps are those between the
\* cursor and each busy interval and the last one from the cursor to the end
\* of the window; a gap meets the rule when it lies on one calendar day
\* inside the working hours and is at least the duration long. No qualifying
\* gap precedes the first slot, a slot is returned whenever a gap qualifies,
\* and busy [09:00,10:00] and [11:00,11:30], window from 09:00, 30 minutes,
\* hours 9 to 17 give [10:00,10:30] first.
MaxOf(S) == CHOOSE x \in S : \A y \in S : y <= x
CursorBefore(k) ==
    MaxOf({start_time} \cup { all_busy[j].end : j \in 1..(k - 1) })
ScenarioTwoMeetings ==
    <<Period(At(0, 9, 0), At(0, 10, 0)), Period(At(0, 11, 0), At(0, 11, 30))>>
C19_FirstSlotEarliest ==
    LET n == Len(all_busy)
        gap_start(k) == CursorBefore(k)
        gap_end(k) == IF k <= n THEN all_busy[k].start ELSE end_time
        meets_rule(k) ==
            /\ gap_end(k) > gap_start(k)
            /\ gap_start(k) >= At(date(gap_start(k)), working_hours[1], 0)
            /\ gap_end(k) <= At(date(gap_start(k)), working_hours[2], 0)
            /\ gap_end(k) - gap_start(k) >= duration_minutes * 60
        qualifying == { k \in 1..(n + 1) : meets_rule(k) }
    IN  (fpc = "done" /\ duration_minutes > 0) =>
            /\ qualifying # {} =>
                  /\ slots_result # <<>>
                  /\ \E k \in qualifying :
                        /\ \A j \in qualifying : j >= k
                        /\ slots_result[1].start = gap_start(k)
                        /\ slots_result[1].end =
                               gap_start(k) + duration_minutes * 60
            /\ qualifying = {} => slots_result = <<>>
            /\ ( /\ RawBusy = ScenarioTwoMeetings
                 /\ start_time = At(0, 9, 0)
                 /\ duration_minutes = 30
                 /\ working_hours = <<9, 17>> ) =>
                  /\ slots_result # <<>>
                  /\ slots_result[1].start = At(0, 10, 0)
                  /\ slots_result[1].end = At(0, 10, 30)

(***************************************************************************)
(* Properties of the scheduling steps of execute_tasks, checked under      *)
(* SpecExec.                                                               *)
(***************************************************************************)
Searched(r) == epc[r] = "done" /\ ~dry_run /\ finder[r] # "none"
\* What find_free_slots, called with a naive start_time, returns first for
\* the window [now, now + 7 days) over the busy list the run was given, <<>>
\* when it returns no slot.
EarliestSlot(r) ==
    LET found == find_free_slots(<<snapshot[r]>>, exec_now, FALSE,
                                 etask[r].ai_estimated_minutes, <<9, 17>>)
    IN  IF found.slots = <<>> THEN <<>>
        ELSE <<Period(found.slots[1].start, found.slots[1].end)>>

\* C15: when the busy timeline leaves no qualifying gap in the window, the
\* slot finder returns an empty sequence, the task gets no slot and no
\* calendar event, and its card is in its destination list all the same.
C15_NoGapNoSlotStillPlaced ==
    \A r \in Runs :
        (Searched(r) /\ EarliestSlot(r) = <<>>) =>
            /\ finder[r] = "empty"
            /\ slot[r] = <<>>
            /\ event[r] = <<>>
            /\ result[r] # None
            /\ result[r] = etarget[r]

\* C16: for a task with a positive duration whose card was created, the slot
\* attached is the earliest slot the finder returns for [now, now + 7 days);
\* for a duration <= 0 no search is made and no slot is attached.
C16_EarliestSlotAttached ==
    \A r \in Runs :
        (epc[r] = "done" /\ ~dry_run) =>
            /\ (calendar_service /\ etask[r].ai_estimated_minutes > 0) =>
                  slot[r] = EarliestSlot(r)
            /\ etask[r].ai_estimated_minutes <= 0 =>
                  /\ finder[r] = "none"
                  /\ slot[r] = <<>>
                  /\ event[r] = <<>>

\* C18: two runs that searched the same busy snapshot for the same duration
\* were each given the slot a run alone is given, hence the same slot: when
\* the snapshot has a qualifying gap the slot is booked twice.
C18_StaleSnapshotDoubleBooks ==
    ( /\ Searched("a") /\ Searched("b")
      /\ snapshot["a"] = snapshot["b"]
      /\ etask["a"].ai_estimated_minutes = etask["b"].ai_estimated_minutes
      /\ EarliestSlot("a") # <<>> ) =>
        /\ slot["a"] = EarliestSlot("a")
        /\ slot["b"] = slot["a"]

(***************************************************************************)
(* Properties of the recurring-task generator, checked under               *)
(* SpecRecurring.                                                          *)
(***************************************************************************)
\* C20: whatever the database calls answer, and over any number of runs, the
\* inbox queue never holds two generated tasks of the same template for the
\* same due date.
C20_OneTaskPerDueDate ==
    \A i, j \in 1..Len(inbox_queue) :
        inbox_queue[i] = inbox_queue[j] => i = j

(***************************************************************************)
(* Further properties of find_free_slots, checked under SpecSlots.         *)
(***************************************************************************)
\* C22: the cursor never moves backwards: a step that processes an interval
\* leaves it at max(previous cursor, interval.end), so it stays at or after
\* the end of every interval processed so far and a slot appended later
\* never starts inside one of them.
C22_CursorMonotone ==
    [][ (fpc = "loop" /\ idx' = idx + 1) =>
          /\ current' >= current
          /\ current' >= all_busy[idx].end
          /\ current' \in {current, all_busy[idx].end}
          /\ \A k \in 1..idx : current' >= all_busy[k].end
          /\ Len(free_slots') > Len(free_slots) =>
                \A k \in 1..(idx - 1) :
                    free_slots'[Len(free_slots')].start >= all_busy[k].end ]_vars

\* C22 witness: an interval nested inside an earlier, longer one has been
\* processed and the cursor still is at the end of the longer one.
C22_Witness ==
    /\ fpc = "loop"
    /\ idx = 3
    /\ all_busy[2].start > all_busy[1].start
    /\ all_busy[2].end < all_busy[1].end
    /\ WellFormed(all_busy[2])
    /\ current = all_busy[1].end

\* C23: no returned slot intersects a busy interval of the input, whichever
\* calendar it came from, and no slot starts before the window start.
C23_SlotsAvoidBusy ==
    fpc = "done" =>
        \A i \in 1..Len(slots_result) :
            /\ slots_result[i].start >= start_time
            /\ \A c \in 1..Len(busy_data) : \A k \in 1..Len(busy_data[c]) :
                  \/ slots_result[i].end <= busy_data[c][k].start
                  \/ busy_data[c][k].end <= slots_result[i].start

\* C23 witness: a slot was returned between busy intervals of two calendars.
C23_Witness ==
    /\ fpc = "done"
    /\ Len(busy_data) = 2
    /\ busy_data[1] # <<>>
    /\ busy_data[2] # <<>>
    /\ \E i \in 1..Len(slots_result) :
          /\ slots_result[i].start = busy_data[1][1].end
          /\ slots_result[i].end <= busy_data[2][1].start

(***************************************************************************)
(* Further properties of determine_target_list, checked under SpecRoute.   *)
(***************************************************************************)
\* Urgency of a list: Today < Tomorrow < ThisWeek < Later.
Urgency(list_id) ==
    CASE list_id = BoardListId("today") -> 0
      [] list_id = BoardListId("tomorrow") -> 1
      [] list_id = BoardListId("this_week") -> 2
      [] OTHER -> 3
WithDeadline(tk, d) == [tk EXCEPT !.ai_inferred_deadline = d]

\* C30: for the same now and a task that is not Critical, a later deadline
\* never gives a more urgent list (Today < Tomorrow < ThisWeek < Later) and
\* a deadline already past gives Today; a deadline overrides the priority:
\* a High task with a deadline more than 7 days ahead goes to Later though
\* it goes to ThisWeek without a deadline.
C30_MonotoneInDeadline ==
    ( /\ Routed /\ AllBucketsMapped
      /\ task.ai_priority # "Critical"
      /\ task.ai_inferred_deadline.kind = "iso" ) =>
        LET d1 == ParseDeadline(task.ai_inferred_deadline) IN
        /\ \A later \in IsoDeadlines :
              Le(d1, ParseDeadline(later)) =>
                  Urgency(target_list_id) <=
                      Urgency(determine_target_list(WithDeadline(task, later),
                                                    list_ids, now))
        /\ Le(d1, now) => target_list_id = BoardListId("today")
        /\ (task.ai_priority = "High" /\ date(d1.t) > date(now.t) + 7) =>
              /\ target_list_id = BoardListId("later")
              /\ determine_target_list(WithoutDeadline(task), list_ids, now)
                     = BoardListId("this_week")

\* C30 witness: a High task whose deadline is 8 days ahead was routed to the
\* Later list.
C30_Witness ==
    /\ Routed /\ AllBucketsMapped
    /\ task.ai_priority = "High"
    /\ task.ai_inferred_deadline.kind = "iso"
    /\ date(task.ai_inferred_deadline.wall.t) = date(now.t) + 8
    /\ target_list_id = BoardListId("later")

\* C27: an iteration of a run advances the template's next_due_at exactly
\* when it created a new inbox task for it (which it does only outside
\* dry-run); otherwise the template's row is left as it was; other
\* templates are never touched; when advanced, the new date is strictly
\* later: 7 days for weekly and unknown types, 14 for biweekly, the same
\* day of the next month for monthly.
C27_AdvancedExactlyWhenCreated ==
    [][ gpc = "loop" =>
          LET id == Head(due_tasks).id
              task_created == Len(inbox_queue') > Len(inbox_queue)
              old == recurring_tasks[id]
              new == recurring_tasks'[id]
          IN
          /\ task_created <=> new.next_due_at # old.next_due_at
          /\ task_created => ~gen_dry_run
          /\ ~task_created => new = old
          /\ \A other \in TemplateIds \ {id} :
                recurring_tasks'[other] = recurring_tasks[other]
          /\ new.next_due_at # old.next_due_at =>
                /\ new.next_due_at = NextDue(old.next_due_at, old.recurrence_type)
                /\ ~DateLe(new.next_due_at, old.next_due_at)
                /\ new.last_generated_at = Today ]_vars

\* C28: under repeated runs every active template makes progress: a
\* template that is due within the generation window eventually is no
\* longer due (its next_due_at was moved beyond the window), also after a
\* run that created its task without advancing next_due_at.
DueNow(id) == id \in Due(recurring_tasks)
C28_TemplatesProgress ==
    \A id \in TemplateIds : DueNow(id) ~> ~DueNow(id)

(***************************************************************************)
(* Properties of execute_tasks as a whole, checked under SpecPipeline.     *)
(***************************************************************************)
External == <<queue, trello, gcal>>

\* C21: a run of execute_tasks in dry-run mode changes no external system:
\* from its start on, the Trello account (board, lists, labels, cards), the
\* inbox_queue rows and the calendar are what they were when it started.
C21_DryRunChangesNothing ==
    pipe_dry_run => External = before

\* The positions of the run's history where `op` was done for task `id`.
StepAt(op, id) == { i \in 1..Len(steps) : steps[i] = <<op, id>> }
Preceded(op, by, id) ==
    \A i \in StepAt(op, id) : \E j \in StepAt(by, id) : j < i
FailedCards == { i \in 1..Len(steps) : steps[i][1] = "card_failed" }

\* C24: in a non-dry run the steps of each task are ordered: the row's
\* execution_status is written only after create_trello_card returned the
\* card, the slot search and the event come only after that card, the
\* calendar fields only after the event; a task whose card creation failed
\* gets no status update and no event and is counted as failed; a row marked
\* 'scheduled' has a card on the board; and when the run reaches its summary
\* success_count + fail_count is the number of fetched tasks and
\* scheduled_count <= success_count.
C24_StepsOrdered ==
    /\ ~pipe_dry_run =>
        /\ \A id \in TaskIds :
            /\ Preceded("status", "card", id)
            /\ Preceded("search", "card", id)
            /\ Preceded("event", "search", id)
            /\ Preceded("calendar_fields", "event", id)
            /\ StepAt("card", id) # {} => trello.cards[id] > 0
            /\ StepAt("card_failed", id) # {} =>
                  /\ StepAt("card", id) = {}
                  /\ StepAt("status", id) = {}
                  /\ StepAt("search", id) = {}
                  /\ StepAt("event", id) = {}
        /\ fail_count = Cardinality(FailedCards)
        /\ pipe_exit = "summary" =>
              /\ success_count + fail_count = fetched_count
              /\ scheduled_count <= success_count
    /\ \A id \in TaskIds :
          queue[id].execution_status = "scheduled" =>
              /\ trello.cards[id] > 0
              /\ queue[id].trello_card_id # None

\* A finished non-dry run of two tasks: one got its card, its status and a
\* slot search, the other's card creation failed.
C24_Witness ==
    /\ ~pipe_dry_run
    /\ pipe_exit = "summary"
    /\ fetched_count = 2
    /\ StepAt("status", "k1") # {}
    /\ StepAt("search", "k1") # {}
    /\ StepAt("card_failed", "k2") # {}
    /\ success_count = 1
    /\ fail_count = 1

\* C25: across non-dry runs, whatever the database and Trello calls answer,
\* a task gets at most one Trello card.
C25_AtMostOneCard ==
    \A id \in TaskIds : trello.cards[id] <= 1

(***************************************************************************)
(* Properties of the email ingestion, checked under SpecIngest.            *)
(***************************************************************************)
\* The emails this run has marked as read: fetched as unread, handled, and
\* no longer unread.
MarkedRead == { id \in DOMAIN handled : id \notin unread }

\* C29: in a non-dry run of the ingestion, an email is marked as read only
\* if its sender is blocklisted or its assessment is stored in inbox_queue;
\* an email whose analysis failed or whose processing raised is left unread
\* and counted as an error; no handled email is both stored and unread; and
\* when the run has reached its summary processed + blocked + errors is the
\* number of fetched emails.
C29_ReadOnlyIfBlockedOrStored ==
    ~ing_dry_run =>
        /\ \A id \in MarkedRead : handled[id].blocked \/ id \in stored
        /\ \A id \in DOMAIN handled :
              (handled[id].analysis \in {"None", "raised"} \/ handled[id].raised) =>
                  /\ id \in unread
                  /\ "error" \in handled[id].counted
        /\ \A id \in DOMAIN handled : ~(id \in stored /\ id \in unread)
        /\ ing_exit = "summary" =>
              processed_count + blocked_count + error_count = emails_fetched

====
